---- MODULE Spec2Model ----
(***************************************************************************)
(* Statistics / ranking handlers and the reaction handlers of the          *)
(* livestreaming backend (go/stats_handler.go, go/reaction_handler.go).    *)
(*                                                                         *)
(* The database tables are the shared state; every HTTP request is a       *)
(* process with its own locals (req[r]) that advances one database call    *)
(* at a time.  Strings (user names, emoji names) are sequences of          *)
(* character codes so that Go's / SQL's lexicographic order is computed.   *)
(***************************************************************************)
EXTENDS Integers, Sequences, FiniteSets, TLC

\* ------------------------------------------------------------------ bounds
MaxUsers == 2
MaxLivestreams == 2
MaxReactions == 2
MaxTip == 2

\* The strings "a", "ab", "b": user names and emoji names are drawn from these.
Names == { <<1>>, <<1, 2>>, <<2>> }
\* The zero value of a Go string.
EmptyString == << >>

VARIABLES
    users,          \* table users: sequence of [id, name]
    livestreams,    \* table livestreams: sequence of [id, user_id]
    reactions,      \* table reactions: sequence of [id, emoji_name, user_id, livestream_id, created_at]
    livecomments,   \* table livecomments: sequence of [id, livestream_id, tip]
    viewers,        \* table livestream_viewers_history: sequence of [id, livestream_id]
    reports,        \* table livecomment_reports: sequence of [id, livestream_id]
    req,            \* the in-flight requests: slot -> the handler's position and locals
    scores          \* the heap of score maps: map -> its contents (Go maps are references)

tables == <<users, livestreams, reactions, livecomments, viewers, reports>>
vars == <<users, livestreams, reactions, livecomments, viewers, reports, req, scores>>

\* ------------------------------------------------------------------ helpers
Range(s) == { s[i] : i \in DOMAIN s }

Min(a, b) == IF a < b THEN a ELSE b

\* All orders in which the rows of a result set can be delivered.
OrdersOf(S) ==
    { s \in [1..Cardinality(S) -> S] : \A i, j \in DOMAIN s : i # j => s[i] # s[j] }

RECURSIVE SumSeq(_)
SumSeq(s) == IF s = << >> THEN 0 ELSE Head(s) + SumSeq(Tail(s))

\* Go's string comparison a < b (bytewise lexicographic, a proper prefix is smaller).
StringLess(a, b) ==
    \E i \in 1..(Min(Len(a), Len(b)) + 1) :
        /\ \A j \in 1..(i - 1) : a[j] = b[j]
        /\ \/ i > Len(a) /\ i <= Len(b)
           \/ i <= Len(a) /\ i <= Len(b) /\ a[i] < b[i]

\* A Go map[int64]int64: a function on the keys present; a missing key reads 0.
EmptyMap == << >>
MapGet(m, k) == IF k \in DOMAIN m THEN m[k] ELSE 0
MapSet(m, k, v) == [x \in (DOMAIN m) \cup {k} |-> IF x = k THEN v ELSE m[x]]

\* ------------------------------------------------------------------ ranking
\* The zero values Go puts in the slots that make(Ranking, n) allocates.
ZeroUserRankingEntry == [Username |-> EmptyString, Score |-> 0]
ZeroLivestreamRankingEntry == [LivestreamID |-> 0, Score |-> 0]

\* UserRanking.Less on two entries.
UserRankingLessNoTieBreak(a, b) == a.Score < b.Score
UserRankingLessDescending(a, b) ==
    IF a.Score = b.Score THEN StringLess(b.Username, a.Username) ELSE a.Score > b.Score
UserRankingLess(a, b) ==
    IF a.Score = b.Score THEN StringLess(a.Username, b.Username) ELSE a.Score < b.Score

\* LivestreamRanking.Less on two entries.
LivestreamRankingLessDescending(a, b) ==
    IF a.Score = b.Score THEN a.LivestreamID < b.LivestreamID ELSE a.Score > b.Score
LivestreamRankingLess(a, b) ==
    IF a.Score = b.Score THEN a.LivestreamID < b.LivestreamID ELSE a.Score < b.Score

Less(kind, a, b) ==
    IF kind = "user" THEN UserRankingLess(a, b) ELSE LivestreamRankingLess(a, b)

\* sort.Sort(ranking): an insertion sort driven by Less (what package sort runs
\* on a short slice); entries that Less cannot tell apart keep either order.
RECURSIVE Insert(_, _, _)
Insert(kind, e, s) ==
    IF s = << >> THEN <<e>>
    ELSE IF Less(kind, Head(s), e) THEN <<Head(s)>> \o Insert(kind, e, Tail(s))
    ELSE <<e>> \o s

RECURSIVE SortRanking(_, _)
SortRanking(kind, s) ==
    IF s = << >> THEN << >> ELSE Insert(kind, Head(s), SortRanking(kind, Tail(s)))

\* ranking := make(UserRanking, len(users)); for each user: append(...).
MakeUserRanking(n) == [i \in 1..n |-> ZeroUserRankingEntry]
BuildUserRanking(population, score) ==
    MakeUserRanking(Len(population)) \o
        [i \in 1..Len(population) |->
            [Username |-> population[i].name, Score |-> MapGet(score, population[i].id)]]

MakeLivestreamRanking(n) == [i \in 1..n |-> ZeroLivestreamRankingEntry]
BuildLivestreamRanking(population, score) ==
    MakeLivestreamRanking(Len(population)) \o
        [i \in 1..Len(population) |->
            [LivestreamID |-> population[i].id, Score |-> MapGet(score, population[i].id)]]

\* rank := 1; for i := len(ranking)-1; i >= 0; i-- { if entry is the target: break; rank++ }
RECURSIVE UserScan(_, _, _, _)
UserScan(ranking, username, i, rank) ==
    IF i < 1 THEN rank
    ELSE IF ranking[i].Username = username THEN rank
    ELSE UserScan(ranking, username, i - 1, rank + 1)

RECURSIVE UserScanForward(_, _, _, _)
UserScanForward(ranking, username, i, rank) ==
    IF i > Len(ranking) THEN rank
    ELSE IF ranking[i].Username = username THEN rank
    ELSE UserScanForward(ranking, username, i + 1, rank + 1)

UserRankScanForward(ranking, username) == UserScanForward(ranking, username, 1, 1)
UserRankScan(ranking, username) == UserScan(ranking, username, Len(ranking), 1)

RECURSIVE LivestreamScan(_, _, _, _)
LivestreamScan(ranking, livestreamID, i, rank) ==
    IF i < 1 THEN rank
    ELSE IF ranking[i].LivestreamID = livestreamID THEN rank
    ELSE LivestreamScan(ranking, livestreamID, i - 1, rank + 1)

LivestreamRankScan(ranking, livestreamID) ==
    LivestreamScan(ranking, livestreamID, Len(ranking), 1)

\* ------------------------------------------------------------------ score aggregation
\* for _, rc := range reactionCounts { score[rc.ID] = rc.ReactionCount }
RECURSIVE FoldReactionCounts(_, _)
FoldReactionCounts(rows, m) ==
    IF rows = << >> THEN m
    ELSE FoldReactionCounts(Tail(rows), MapSet(m, Head(rows).ID, Head(rows).ReactionCount))

\* for _, tt := range totalTips { score[tt.ID] += tt.TotalTip }
AddTipOverwrites(m, tt) == MapSet(m, tt.ID, tt.TotalTip)
AddTip(m, tt) == MapSet(m, tt.ID, MapGet(m, tt.ID) + tt.TotalTip)

RECURSIVE FoldTotalTips(_, _)
FoldTotalTips(rows, m) ==
    IF rows = << >> THEN m ELSE FoldTotalTips(Tail(rows), AddTip(m, Head(rows)))

\* if rc.ID == target { total = rc.Value }, over the rows of one result set.
RECURSIVE PickTotal(_, _, _, _)
PickTotal(rows, field, id, total) ==
    IF rows = << >> THEN total
    ELSE PickTotal(Tail(rows), field, id,
                   IF Head(rows).ID = id THEN Head(rows)[field] ELSE total)

\* ------------------------------------------------------------------ queries
LivestreamIDsOf(userID) == { l.id : l \in { x \in Range(livestreams) : x.user_id = userID } }

ReactionsOn(lsIDs) == { r \in Range(reactions) : r.livestream_id \in lsIDs }
CommentsOn(lsIDs) == { c \in Range(livecomments) : c.livestream_id \in lsIDs }

RECURSIVE SumTips(_)
SumTips(S) ==
    IF S = {} THEN 0 ELSE LET c == CHOOSE x \in S : TRUE IN c.tip + SumTips(S \ {c})

ExistingLivestreamIDs == { l.id : l \in Range(livestreams) }

\* SELECT u.id, COUNT(r.id) FROM users u JOIN livestreams l JOIN reactions r GROUP BY u.id
UserReactionCountRows ==
    { [ID |-> u.id, ReactionCount |-> Cardinality(ReactionsOn(LivestreamIDsOf(u.id)))] :
        u \in { x \in Range(users) : ReactionsOn(LivestreamIDsOf(x.id)) # {} } }

\* SELECT u.id, IFNULL(SUM(lc.tip), 0) FROM users u JOIN livestreams ls JOIN livecomments lc GROUP BY u.id
UserTotalTipRows ==
    { [ID |-> u.id, TotalTip |-> SumTips(CommentsOn(LivestreamIDsOf(u.id)))] :
        u \in { x \in Range(users) : CommentsOn(LivestreamIDsOf(x.id)) # {} } }

\* SELECT l.id, COUNT(r.id) FROM livestreams l JOIN reactions r GROUP BY l.id
LivestreamReactionCountRows ==
    { [ID |-> l.id, ReactionCount |-> Cardinality(ReactionsOn({l.id}))] :
        l \in { x \in Range(livestreams) : ReactionsOn({x.id}) # {} } }

\* SELECT l.id, IFNULL(SUM(l2.tip), 0) FROM livestreams l JOIN livecomments l2 GROUP BY l.id
LivestreamTotalTipRows ==
    { [ID |-> l.id, TotalTip |-> SumTips(CommentsOn({l.id}))] :
        l \in { x \in Range(livestreams) : CommentsOn({x.id}) # {} } }

\* SELECT COUNT(lc.id) FROM livecomments lc JOIN livestreams ls WHERE ls.user_id = ?
UserLivecommentCount(userID) == Cardinality(CommentsOn(LivestreamIDsOf(userID)))

\* SELECT COUNT(lvh.id) FROM livestream_viewers_history lvh JOIN livestreams ls WHERE ls.user_id = ?
UserViewerCount(userID) ==
    Cardinality({ v \in Range(viewers) : v.livestream_id \in LivestreamIDsOf(userID) })

\* SELECT COUNT(h.id) FROM livestreams l JOIN livestream_viewers_history h WHERE l.id = ?
LivestreamViewerCount(id) ==
    Cardinality({ v \in Range(viewers) :
                    v.livestream_id = id /\ id \in ExistingLivestreamIDs })

RECURSIVE MaxOf(_)
MaxOf(S) ==
    IF S = {} THEN 0
    ELSE LET x == CHOOSE y \in S : TRUE
             m == MaxOf(S \ {x})
         IN  IF x > m THEN x ELSE m

\* SELECT IFNULL(MAX(tip), 0) FROM livestreams l JOIN livecomments l2 WHERE l.id = ?
LivestreamMaxTip(id) ==
    MaxOf({ c.tip : c \in CommentsOn({id} \cap ExistingLivestreamIDs) })

\* SELECT COUNT(r.id) FROM livestreams l JOIN livecomment_reports r WHERE l.id = ?
LivestreamReportCount(id) ==
    Cardinality({ p \in Range(reports) :
                    p.livestream_id = id /\ id \in ExistingLivestreamIDs })

\* The groups of: ... WHERE u.name = ? GROUP BY emoji_name
EmojiGroups(username) ==
    LET owned == UNION { LivestreamIDsOf(u.id) : u \in { x \in Range(users) : x.name = username } }
        rs == ReactionsOn(owned)
    IN  { [emoji_name |-> e, cnt |-> Cardinality({ r \in rs : r.emoji_name = e })] :
            e \in { r.emoji_name : r \in rs } }

\* ORDER BY COUNT(*) DESC, emoji_name DESC: g comes before h.
EmojiOrderNameAscending(g, h) ==
    \/ g.cnt > h.cnt
    \/ g.cnt = h.cnt /\ StringLess(g.emoji_name, h.emoji_name)
EmojiOrder(g, h) ==
    \/ g.cnt > h.cnt
    \/ g.cnt = h.cnt /\ StringLess(h.emoji_name, g.emoji_name)

\* ... ORDER BY COUNT(*) DESC, emoji_name DESC LIMIT 1: the rows the query returns.
FavoriteEmojiRows(username) ==
    LET G == EmojiGroups(username)
        sorted == CHOOSE s \in OrdersOf(G) :
                      \A i, j \in DOMAIN s : i < j => EmojiOrder(s[i], s[j])
    IN  IF G = {} THEN << >> ELSE <<sorted[1].emoji_name>>

\* ------------------------------------------------------------------ requests
\* A path or query parameter: the text either parses as an integer or does not.
IntParam(n) == [present |-> TRUE, isInt |-> TRUE, val |-> n]
NotAnInt == [present |-> TRUE, isInt |-> FALSE, val |-> 0]
Absent == [present |-> FALSE, isInt |-> FALSE, val |-> 0]

\* strconv.Atoi
Atoi(p) == [err |-> ~p.isInt, val |-> IF p.isInt THEN p.val ELSE 0]

NoBody == [kind |-> "none"]

\* A request slot with every local at its Go zero value.
Idle ==
    [ handler |-> "none", pc |-> "idle", target |-> Absent, limit |-> Absent,
      livestreamID |-> 0, user |-> 0,
      population |-> {}, ranking |-> << >>, rank |-> 0,
      totalReactions |-> 0, totalTip |-> 0, totalLivecomments |-> 0,
      viewersCount |-> 0, maxTip |-> 0, totalReports |-> 0,
      favoriteEmoji |-> EmptyString, rows |-> << >>,
      emojiName |-> EmptyString, tx |-> << >>,
      firstSeen |-> 0, lastSeen |-> 0,
      failed |-> "none", status |-> "none", body |-> NoBody ]

\* The handler returns: its locals are gone, the response stays, and so does the
\* history of the request (lastSeen: the reactions stored as it took its last step).
Respond(q, status, body) ==
    [Idle EXCEPT !.handler = q.handler, !.target = q.target, !.limit = q.limit,
                 !.firstSeen = q.firstSeen, !.lastSeen = Len(reactions),
                 !.failed = q.failed, !.pc = "done", !.status = status, !.body = body]

\* return echo.NewHTTPError(status, ...)
HTTPError(q, status) == Respond(q, status, NoBody)

\* The outcome of one database call: no error, or a failure of the call.
CallErrs == {"nil", "error"}
\* tx.GetContext of a single row: sql.ErrNoRows when the query has no row.
GetErr(callErr, hasRow) ==
    IF callErr # "nil" THEN callErr ELSE IF hasRow THEN "nil" ELSE "ErrNoRows"

\* if err != nil
FailedOnlyOnCallError(err) == err = "error"
Failed(err) == err # "nil"
\* if err != nil && !errors.Is(err, sql.ErrNoRows)
FailedNever(err) == FALSE
FailedExceptNoRows(err) == err # "nil" /\ err # "ErrNoRows"

\* The history of the request: the call of it that failed, if one did, and
\* (firstSeen) the reactions stored as it took its first step.
Noting(q, err) ==
    [q EXCEPT !.failed = IF err # "error" THEN @
                         ELSE IF q.pc = "idle" THEN "beginTx" ELSE q.pc,
              !.firstSeen = IF q.pc = "idle" THEN Len(reactions) ELSE @]

\* userScore := map[int64]int64{} / livestreamScore := map[int64]int64{}:
\* the map a request allocates is its own.
ScoreMapShared(r) == 1
ScoreMapOf(r) == r

\* The score map of request r as it stands.
Score(r) == scores[ScoreMapOf(r)]

\* One step of request r: its locals become q and its score map m; the map of a
\* request that has returned is garbage.
SetBoth(r, q, m) ==
    /\ req' = [req EXCEPT ![r] = q]
    /\ scores' = [scores EXCEPT ![ScoreMapOf(r)] = IF q.pc = "done" THEN EmptyMap ELSE m]
    /\ UNCHANGED tables

Set(r, q) ==
    /\ req' = [req EXCEPT ![r] = q]
    /\ scores' = IF q.pc = "done" THEN [scores EXCEPT ![ScoreMapOf(r)] = EmptyMap] ELSE scores
    /\ UNCHANGED tables

\* A slot serves one request.
NewRequest(r) == r \in DOMAIN req /\ req[r].pc = "idle"

\* Request r runs the handler and stands before the call named pc.
At(r, handler, pc) == r \in DOMAIN req /\ req[r].handler = handler /\ req[r].pc = pc

\* ------------------------------------------------------------------ getUserStatisticsHandler
\* verifyUserSession, c.Param("username"), dbConn.BeginTxx
UserStatsStart(r, username) ==
    /\ NewRequest(r)
    /\ \E sessionOK \in BOOLEAN, err \in CallErrs :
        LET q == Noting([Idle EXCEPT !.handler = "userStats", !.target = username],
                        IF sessionOK THEN err ELSE "nil")
        IN  Set(r, IF ~sessionOK THEN HTTPError(q, "SessionError")
                   ELSE IF Failed(err) THEN HTTPError(q, "InternalServerError")
                   ELSE [q EXCEPT !.pc = "getUser"])

\* SELECT * FROM users WHERE name = ?
UserStatsGetUser(r) ==
    /\ At(r, "userStats", "getUser")
    /\ \E callErr \in CallErrs :
        LET found == { u \in Range(users) : u.name = req[r].target }
            err == GetErr(callErr, found # {})
            q == Noting(req[r], err)
        IN  Set(r, IF Failed(err)
                   THEN IF err = "ErrNoRows" THEN HTTPError(q, "BadRequest")
                        ELSE HTTPError(q, "InternalServerError")
                   ELSE [q EXCEPT !.pc = "selectUsers",
                                  !.user = IF found = {} THEN 0
                                           ELSE (CHOOSE u \in found : TRUE).id])

\* SELECT * FROM users: the rows, whose order is fixed only when they are ranged over
UserStatsSelectUsers(r) ==
    /\ At(r, "userStats", "selectUsers")
    /\ \E err \in CallErrs :
        LET q == Noting(req[r], err)
        IN  Set(r, IF Failed(err) THEN HTTPError(q, "InternalServerError")
                   ELSE [q EXCEPT !.pc = "countReactions", !.population = Range(users)])

\* userScore := map[int64]int64{}; the reaction-count query and its loop
UserStatsCountReactions(r) ==
    /\ At(r, "userStats", "countReactions")
    /\ \E err \in CallErrs, rows \in OrdersOf(UserReactionCountRows) :
        LET q == Noting(req[r], err)
            got == IF err = "nil" THEN rows ELSE << >>
        IN  SetBoth(r, IF FailedExceptNoRows(err) THEN HTTPError(q, "InternalServerError")
                       ELSE [q EXCEPT !.pc = "countTips",
                                      !.totalReactions =
                                          PickTotal(got, "ReactionCount", q.user, 0)],
                    FoldReactionCounts(got, EmptyMap))

\* the tip query and its loop; then build (ranging over the population in the
\* order the rows came), sort and scan the ranking
UserStatsCountTips(r) ==
    /\ At(r, "userStats", "countTips")
    /\ \E err \in CallErrs, rows \in OrdersOf(UserTotalTipRows),
          population \in OrdersOf(req[r].population) :
        LET q == Noting(req[r], err)
            got == IF err = "nil" THEN rows ELSE << >>
            score == FoldTotalTips(got, Score(r))
            ranking == SortRanking("user", BuildUserRanking(population, score))
        IN  SetBoth(r, IF FailedExceptNoRows(err) THEN HTTPError(q, "InternalServerError")
                       ELSE [q EXCEPT !.pc = "countLivecomments",
                                      !.totalTip = PickTotal(got, "TotalTip", q.user, 0),
                                      !.ranking = ranking,
                                      !.rank = UserRankScan(ranking, q.target)],
                    score)

\* SELECT COUNT(lc.id) ... WHERE ls.user_id = ?
UserStatsCountLivecomments(r) ==
    /\ At(r, "userStats", "countLivecomments")
    /\ \E err \in CallErrs :
        LET q == Noting(req[r], err)
        IN  Set(r, IF Failed(err) THEN HTTPError(q, "InternalServerError")
                   ELSE [q EXCEPT !.pc = "countViewers",
                                  !.totalLivecomments = UserLivecommentCount(q.user)])

\* SELECT COUNT(lvh.id) ... WHERE ls.user_id = ?
UserStatsCountViewers(r) ==
    /\ At(r, "userStats", "countViewers")
    /\ \E err \in CallErrs :
        LET q == Noting(req[r], err)
        IN  Set(r, IF Failed(err) THEN HTTPError(q, "InternalServerError")
                   ELSE [q EXCEPT !.pc = "favoriteEmoji",
                                  !.viewersCount = UserViewerCount(q.user)])

\* the favorite-emoji query; then c.JSON(http.StatusOK, stats)
UserStatsFavoriteEmoji(r) ==
    /\ At(r, "userStats", "favoriteEmoji")
    /\ \E callErr \in CallErrs :
        LET found == FavoriteEmojiRows(req[r].target)
            err == GetErr(callErr, found # << >>)
            q == Noting(req[r], err)
            favoriteEmoji == IF err = "nil" THEN found[1] ELSE q.favoriteEmoji
        IN  Set(r, IF FailedExceptNoRows(err) THEN HTTPError(q, "InternalServerError")
                   ELSE Respond(q, "OK",
                                [ kind |-> "UserStatistics",
                                  Rank |-> q.rank,
                                  ViewersCount |-> q.viewersCount,
                                  TotalReactions |-> q.totalReactions,
                                  TotalLivecomments |-> q.totalLivecomments,
                                  TotalTip |-> q.totalTip,
                                  FavoriteEmoji |-> favoriteEmoji ]))

\* ------------------------------------------------------------------ getLivestreamStatisticsHandler
\* getLivestream(ctx, tx, id): the livestream row, sql.ErrNoRows when there is none.
GetLivestream(callErr, id) ==
    LET found == { l \in Range(livestreams) : l.id = id }
    IN  [err |-> GetErr(callErr, found # {}), rows |-> found]

\* verifyUserSession, strconv.Atoi(c.Param("livestream_id")), dbConn.BeginTxx
LivestreamStatsStart(r, param) ==
    /\ NewRequest(r)
    /\ \E sessionOK \in BOOLEAN, err \in CallErrs :
        LET id == Atoi(param)
            q == Noting([Idle EXCEPT !.handler = "livestreamStats", !.target = param],
                        IF sessionOK /\ ~id.err THEN err ELSE "nil")
        IN  Set(r, IF ~sessionOK THEN HTTPError(q, "SessionError")
                   ELSE IF id.err THEN HTTPError(q, "BadRequest")
                   ELSE IF Failed(err) THEN HTTPError(q, "InternalServerError")
                   ELSE [q EXCEPT !.pc = "getLivestream", !.livestreamID = id.val])

LivestreamStatsGetLivestream(r) ==
    /\ At(r, "livestreamStats", "getLivestream")
    /\ \E callErr \in CallErrs :
        LET got == GetLivestream(callErr, req[r].livestreamID)
            q == Noting(req[r], got.err)
        IN  Set(r, IF Failed(got.err)
                   THEN IF got.err = "ErrNoRows" THEN HTTPError(q, "BadRequest")
                        ELSE HTTPError(q, "InternalServerError")
                   ELSE [q EXCEPT !.pc = "selectLivestreams"])

\* SELECT * FROM livestreams: the rows, whose order is fixed only when they are ranged over
LivestreamStatsSelectLivestreams(r) ==
    /\ At(r, "livestreamStats", "selectLivestreams")
    /\ \E err \in CallErrs :
        LET q == Noting(req[r], err)
        IN  Set(r, IF FailedExceptNoRows(err) THEN HTTPError(q, "InternalServerError")
                   ELSE [q EXCEPT !.pc = "countReactions",
                                  !.population = IF err = "nil" THEN Range(livestreams) ELSE {}])

\* livestreamScore := map[int64]int64{}; the reaction-count query and its loop
LivestreamStatsCountReactions(r) ==
    /\ At(r, "livestreamStats", "countReactions")
    /\ \E err \in CallErrs, rows \in OrdersOf(LivestreamReactionCountRows) :
        LET q == Noting(req[r], err)
            got == IF err = "nil" THEN rows ELSE << >>
        IN  SetBoth(r, IF FailedExceptNoRows(err) THEN HTTPError(q, "InternalServerError")
                       ELSE [q EXCEPT !.pc = "countTips",
                                      !.totalReactions =
                                          PickTotal(got, "ReactionCount", q.livestreamID, 0)],
                    FoldReactionCounts(got, EmptyMap))

\* the tip query and its loop; then build (ranging over the population in the
\* order the rows came), sort and scan the ranking
LivestreamStatsCountTips(r) ==
    /\ At(r, "livestreamStats", "countTips")
    /\ \E err \in CallErrs, rows \in OrdersOf(LivestreamTotalTipRows),
          population \in OrdersOf(req[r].population) :
        LET q == Noting(req[r], err)
            got == IF err = "nil" THEN rows ELSE << >>
            score == FoldTotalTips(got, Score(r))
            ranking == SortRanking("livestream", BuildLivestreamRanking(population, score))
        IN  SetBoth(r, IF FailedExceptNoRows(err) THEN HTTPError(q, "InternalServerError")
                       ELSE [q EXCEPT !.pc = "countViewers",
                                      !.ranking = ranking,
                                      !.rank = LivestreamRankScan(ranking, q.livestreamID)],
                    score)

\* SELECT COUNT(h.id) ... WHERE l.id = ?
LivestreamStatsCountViewers(r) ==
    /\ At(r, "livestreamStats", "countViewers")
    /\ \E err \in CallErrs :
        LET q == Noting(req[r], err)
        IN  Set(r, IF FailedExceptNoRows(err) THEN HTTPError(q, "InternalServerError")
                   ELSE [q EXCEPT !.pc = "maxTip",
                                  !.viewersCount = LivestreamViewerCount(q.livestreamID)])

\* SELECT IFNULL(MAX(tip), 0) ... WHERE l.id = ?
LivestreamStatsMaxTip(r) ==
    /\ At(r, "livestreamStats", "maxTip")
    /\ \E err \in CallErrs :
        LET q == Noting(req[r], err)
        IN  Set(r, IF FailedExceptNoRows(err) THEN HTTPError(q, "InternalServerError")
                   ELSE [q EXCEPT !.pc = "countReports",
                                  !.maxTip = LivestreamMaxTip(q.livestreamID)])

\* SELECT COUNT(r.id) ... WHERE l.id = ?
LivestreamStatsCountReports(r) ==
    /\ At(r, "livestreamStats", "countReports")
    /\ \E err \in CallErrs :
        LET q == Noting(req[r], err)
        IN  Set(r, IF FailedExceptNoRows(err) THEN HTTPError(q, "InternalServerError")
                   ELSE [q EXCEPT !.pc = "commit",
                                  !.totalReports = LivestreamReportCount(q.livestreamID)])

\* tx.Commit(); then c.JSON(http.StatusOK, LivestreamStatistics{...})
LivestreamStatsCommit(r) ==
    /\ At(r, "livestreamStats", "commit")
    /\ \E err \in CallErrs :
        LET q == Noting(req[r], err)
        IN  Set(r, IF Failed(err) THEN HTTPError(q, "InternalServerError")
                   ELSE Respond(q, "OK",
                                [ kind |-> "LivestreamStatistics",
                                  Rank |-> q.rank,
                                  ViewersCount |-> q.viewersCount,
                                  MaxTip |-> q.maxTip,
                                  TotalReactions |-> q.totalReactions,
                                  TotalReports |-> q.totalReports ]))

\* ------------------------------------------------------------------ getReactionsHandler
\* The joined rows of the reactions on one livestream.
ReactionRows(id) ==
    { r \in Range(reactions) :
        /\ r.livestream_id = id
        /\ \E u \in Range(users) : u.id = r.user_id
        /\ \E l \in Range(livestreams) :
              l.id = id /\ \E o \in Range(users) : o.id = l.user_id }

\* ... ORDER BY r.created_at DESC: every order the database may deliver.
ReactionRowOrders(id) ==
    { s \in OrdersOf(ReactionRows(id)) :
        \A i, j \in DOMAIN s : i < j => s[i].created_at >= s[j].created_at }

\* query += fmt.Sprintf(" LIMIT %d", limit)
Limited(s, limit) ==
    IF limit.present THEN SubSeq(s, 1, Min(limit.val, Len(s))) ELSE s

\* verifyUserSession, strconv.Atoi(c.Param("livestream_id")), dbConn.BeginTxx
GetReactionsStart(r, param, limit) ==
    /\ NewRequest(r)
    /\ \E sessionOK \in BOOLEAN, err \in CallErrs :
        LET id == Atoi(param)
            q == Noting([Idle EXCEPT !.handler = "getReactions", !.target = param,
                                     !.limit = limit],
                        IF sessionOK /\ ~id.err THEN err ELSE "nil")
        IN  Set(r, IF ~sessionOK THEN HTTPError(q, "SessionError")
                   ELSE IF id.err THEN HTTPError(q, "BadRequest")
                   ELSE IF Failed(err) THEN HTTPError(q, "InternalServerError")
                   ELSE [q EXCEPT !.pc = "selectReactions", !.livestreamID = id.val])

\* the limit parameter, then the joined SELECT
GetReactionsSelect(r) ==
    /\ At(r, "getReactions", "selectReactions")
    /\ \E callErr \in CallErrs, rows \in ReactionRowOrders(req[r].livestreamID) :
        LET limit == req[r].limit
            badLimit == limit.present /\ Atoi(limit).err
            err == callErr
            q == Noting(req[r], IF badLimit THEN "nil" ELSE err)
        IN  Set(r, IF badLimit THEN HTTPError(q, "BadRequest")
                   ELSE IF err = "ErrNoRows" THEN Respond(q, "OK", [kind |-> "Reactions", list |-> << >>])
                   ELSE IF Failed(err) THEN HTTPError(q, "InternalServerError")
                   ELSE [q EXCEPT !.pc = "selectTags", !.rows = Limited(rows, limit)])

\* SELECT tags.* FROM tags JOIN livestream_tags ...
GetReactionsSelectTags(r) ==
    /\ At(r, "getReactions", "selectTags")
    /\ \E err \in CallErrs :
        LET q == Noting(req[r], err)
        IN  Set(r, IF FailedExceptNoRows(err) THEN HTTPError(q, "InternalServerError")
                   ELSE [q EXCEPT !.pc = "commit"])

\* tx.Commit()
GetReactionsCommit(r) ==
    /\ At(r, "getReactions", "commit")
    /\ \E err \in CallErrs :
        LET q == Noting(req[r], err)
        IN  Set(r, IF Failed(err) THEN HTTPError(q, "InternalServerError")
                   ELSE [q EXCEPT !.pc = "fill"])

\* reactionsResponse := []Reaction{}; for i := range reactions { reactionsResponse[i] = ... }
\* An index at or past the length of the slice is a runtime panic.
RECURSIVE FillLoop(_, _, _)
FillLoop(rows, i, resp) ==
    IF i > Len(rows) THEN [panic |-> FALSE, resp |-> resp]
    ELSE IF i > Len(resp) THEN [panic |-> TRUE, resp |-> resp]
    ELSE FillLoop(rows, i + 1,
                  [resp EXCEPT ![i] = [ ID |-> rows[i].id,
                                        EmojiName |-> rows[i].emoji_name,
                                        UserID |-> rows[i].user_id,
                                        LivestreamID |-> rows[i].livestream_id,
                                        CreatedAt |-> rows[i].created_at ]])

FillReactionsResponse(rows) == FillLoop(rows, 1, << >>)

\* os.ReadFile(fallbackImage), the fill loop, c.JSON(http.StatusOK, reactionsResponse)
GetReactionsFill(r) ==
    /\ At(r, "getReactions", "fill")
    /\ \E err \in CallErrs :
        LET q == Noting(req[r], err)
            filled == FillReactionsResponse(q.rows)
        IN  Set(r, IF Failed(err) THEN HTTPError(q, "InternalServerError")
                   ELSE IF filled.panic THEN HTTPError(q, "Panic")
                   ELSE Respond(q, "OK", [kind |-> "Reactions", list |-> filled.resp]))

\* ------------------------------------------------------------------ postReactionHandler
\* The request body: JSON text that decodes into *PostReactionRequest, the JSON
\* text null (which decodes into a nil pointer without an error), or no JSON.
JSONBody(emoji) == [json |-> TRUE, null |-> FALSE, emoji_name |-> emoji]
NullBody == [json |-> TRUE, null |-> TRUE, emoji_name |-> EmptyString]
MalformedBody == [json |-> FALSE, null |-> FALSE, emoji_name |-> EmptyString]

\* json.NewDecoder(c.Request().Body).Decode(&req)
Decode(body) == [err |-> ~body.json, isNil |-> body.null, EmojiName |-> body.emoji_name]

\* The rows a transaction has written and not committed are its own.
\* tx.NamedExecContext(ctx, "INSERT INTO reactions ...", reactionModel)
Exec(tx, row) == Append(tx, row)
\* tx.Commit(): the rows written in the transaction are stored.
Commit(stored, tx) == stored \o tx
\* defer tx.Rollback(): the rows written in the transaction are dropped.
RollbackKeepsWrites(stored, tx) == stored \o tx
Rollback(stored, tx) == stored

\* result.LastInsertId(): the AUTO_INCREMENT id, past every id stored or written.
LastInsertId ==
    LET ids == { x.id : x \in Range(reactions) }
                   \cup UNION { { x.id : x \in Range(req[s].tx) } : s \in DOMAIN req }
    IN  1 + (IF ids = {} THEN 0 ELSE CHOOSE m \in ids : \A i \in ids : i <= m)

\* time.Now().Unix(): not before the creation time of a stored reaction.
Clock == { Len(reactions), Len(reactions) + 1 }

\* The handler returns with the table reactions as its transaction leaves it.
PostReactionReturn(r, q, status, body, stored) ==
    /\ req' = [req EXCEPT ![r] = Respond(q, status, body)]
    /\ reactions' = stored
    /\ UNCHANGED <<users, livestreams, livecomments, viewers, reports, scores>>

\* return echo.NewHTTPError(...) with the deferred tx.Rollback()
PostReactionError(r, q, call) ==
    PostReactionReturn(r, [q EXCEPT !.failed = call], "InternalServerError", NoBody,
                       Rollback(reactions, q.tx))

\* strconv.Atoi, verifyUserSession, the session's user id, Decode, dbConn.BeginTxx,
\* reactionModel := ReactionModel{..., EmojiName: req.EmojiName, ...}
PostReactionStart(r, param, userID, body) ==
    /\ NewRequest(r)
    /\ \E sessionOK \in BOOLEAN, err \in CallErrs :
        LET id == Atoi(param)
            dec == Decode(body)
            q == Noting([Idle EXCEPT !.handler = "postReaction", !.target = param],
                        IF sessionOK /\ ~id.err /\ ~dec.err THEN err ELSE "nil")
        IN  Set(r, IF id.err THEN HTTPError(q, "BadRequest")
                   ELSE IF ~sessionOK THEN HTTPError(q, "SessionError")
                   ELSE IF dec.err THEN HTTPError(q, "BadRequest")
                   ELSE IF Failed(err) THEN HTTPError(q, "InternalServerError")
                   ELSE IF dec.isNil THEN HTTPError(q, "Panic")
                   ELSE [q EXCEPT !.pc = "insert", !.livestreamID = id.val,
                                  !.user = userID, !.emojiName = dec.EmojiName])

\* INSERT INTO reactions ...; result.LastInsertId()
PostReactionInsert(r) ==
    /\ At(r, "postReaction", "insert")
    /\ \E execErr \in CallErrs, idErr \in CallErrs, now \in Clock :
        LET q == req[r]
            row == [id |-> LastInsertId, emoji_name |-> q.emojiName, user_id |-> q.user,
                    livestream_id |-> q.livestreamID, created_at |-> now]
            written == [q EXCEPT !.tx = Exec(q.tx, row)]
        IN  IF Failed(execErr) THEN PostReactionError(r, q, "insert")
            ELSE IF Failed(idErr) THEN PostReactionError(r, written, "lastInsertId")
            ELSE Set(r, [written EXCEPT !.pc = "fillUser"])

\* fillReactionResponse: SELECT * FROM users WHERE id = ?; fillUserResponse
PostReactionFillUser(r) ==
    /\ At(r, "postReaction", "fillUser")
    /\ \E callErr \in CallErrs, fillErr \in CallErrs :
        LET q == req[r]
            err == GetErr(callErr, \E u \in Range(users) : u.id = q.user)
        IN  IF Failed(err) \/ Failed(fillErr) THEN PostReactionError(r, q, "fillUser")
            ELSE Set(r, [q EXCEPT !.pc = "fillLivestream"])

\* fillReactionResponse: SELECT * FROM livestreams WHERE id = ?; fillLivestreamResponse
PostReactionFillLivestream(r) ==
    /\ At(r, "postReaction", "fillLivestream")
    /\ \E callErr \in CallErrs, fillErr \in CallErrs :
        LET q == req[r]
            err == GetErr(callErr, \E l \in Range(livestreams) : l.id = q.livestreamID)
        IN  IF Failed(err) \/ Failed(fillErr) THEN PostReactionError(r, q, "fillLivestream")
            ELSE Set(r, [q EXCEPT !.pc = "commit"])

\* tx.Commit(); c.JSON(http.StatusCreated, reaction)
PostReactionCommit(r) ==
    /\ At(r, "postReaction", "commit")
    /\ \E err \in CallErrs :
        LET q == req[r]
            row == q.tx[1]
        IN  IF Failed(err) THEN PostReactionError(r, q, "commit")
            ELSE PostReactionReturn(r, q, "Created",
                     [ kind |-> "Reaction", ID |-> row.id, EmojiName |-> row.emoji_name,
                       UserID |-> row.user_id, LivestreamID |-> row.livestream_id,
                       CreatedAt |-> row.created_at ],
                     Commit(reactions, q.tx))

\* ------------------------------------------------------------------ inputs
UsernameParams == Names
LivestreamParams == { IntParam(i) : i \in 1..(MaxLivestreams + 1) } \cup {NotAnInt}
LimitParams == {Absent, IntParam(1), NotAnInt}

InjectiveSeqs(S, n) == { s \in [1..n -> S] : \A i, j \in 1..n : i # j => s[i] # s[j] }

\* users: ids 1..n in insertion order, names unique.
UserTable(names) == [i \in DOMAIN names |-> [id |-> i, name |-> names[i]]]
UserTables == { UserTable(s) : s \in UNION { InjectiveSeqs(Names, n) : n \in 1..MaxUsers } }

\* livestreams: ids 1..m, the owners taken in turn among the n users.
LivestreamTable(n, m) == [i \in 1..m |-> [id |-> i, user_id |-> ((i - 1) % n) + 1]]

\* reactions: ids and creation times in insertion order, posted by user 1.
ReactionTable(s) ==
    [i \in DOMAIN s |-> [id |-> i, emoji_name |-> s[i][2], user_id |-> 1,
                         livestream_id |-> s[i][1], created_at |-> i]]

PairLeq(p, q) == p[1] < q[1] \/ (p[1] = q[1] /\ ~StringLess(q[2], p[2]))

\* Up to maxLen reactions on livestreams 1..m with the given emoji names,
\* one table per multiset (inserted livestream by livestream).
ReactionTables(m, emojis, maxLen) ==
    { ReactionTable(s) :
        s \in UNION { { t \in [1..k -> (1..m) \X emojis] :
                          \A i, j \in 1..k : i < j => PairLeq(t[i], t[j]) } :
                      k \in 0..maxLen } }

\* livecomments: at most one comment, with a tip of 0..MaxTip.
CommentTables(m) ==
    { << >> } \cup { << [id |-> 1, livestream_id |-> l, tip |-> t] >> : l \in 1..m, t \in 0..MaxTip }

\* livestream_viewers_history / livecomment_reports: at most one row.
RowTables(m) == { << >> } \cup { << [id |-> 1, livestream_id |-> l] >> : l \in 1..m }

\* The users "b", "a", "ab" registered in this order: the first n of them.
FixedNames == << <<2>>, <<1>>, <<1, 2>> >>
FixedUsers(n) == UserTable(SubSeq(FixedNames, 1, Min(n, Len(FixedNames))))

\* The request slots: one is in use in the sequential runs, two or three in the
\* concurrent runs.
Slots == {1, 2, 3}

\* ------------------------------------------------------------------ specification
\* One request at a time, over every population, reaction count and tip.
Init ==
    /\ users \in UserTables
    /\ \E m \in 0..MaxLivestreams :
        /\ livestreams = LivestreamTable(Len(users), m)
        /\ reactions \in ReactionTables(m, { <<1>> }, MaxReactions)
        /\ livecomments \in CommentTables(m)
    /\ viewers = << >>
    /\ reports = << >>
    /\ req = [r \in {1} |-> Idle]
    /\ scores = [r \in {1} |-> EmptyMap]

Next ==
    \/ \E r \in Slots, username \in UsernameParams : UserStatsStart(r, username)
    \/ \E r \in Slots : UserStatsGetUser(r)
    \/ \E r \in Slots : UserStatsSelectUsers(r)
    \/ \E r \in Slots : UserStatsCountReactions(r)
    \/ \E r \in Slots : UserStatsCountTips(r)
    \/ \E r \in Slots : UserStatsCountLivecomments(r)
    \/ \E r \in Slots : UserStatsCountViewers(r)
    \/ \E r \in Slots : UserStatsFavoriteEmoji(r)
    \/ \E r \in Slots, param \in LivestreamParams : LivestreamStatsStart(r, param)
    \/ \E r \in Slots : LivestreamStatsGetLivestream(r)
    \/ \E r \in Slots : LivestreamStatsSelectLivestreams(r)
    \/ \E r \in Slots : LivestreamStatsCountReactions(r)
    \/ \E r \in Slots : LivestreamStatsCountTips(r)
    \/ \E r \in Slots : LivestreamStatsCountViewers(r)
    \/ \E r \in Slots : LivestreamStatsMaxTip(r)
    \/ \E r \in Slots : LivestreamStatsCountReports(r)
    \/ \E r \in Slots : LivestreamStatsCommit(r)
    \/ \E r \in Slots, param \in LivestreamParams, limit \in LimitParams :
           GetReactionsStart(r, param, limit)
    \/ \E r \in Slots : GetReactionsSelect(r)
    \/ \E r \in Slots : GetReactionsSelectTags(r)
    \/ \E r \in Slots : GetReactionsCommit(r)
    \/ \E r \in Slots : GetReactionsFill(r)

Spec == Init /\ [][Next]_vars

\* One request at a time; every table holds at most one row, on any livestream.
InitStats ==
    /\ \E n \in 1..MaxUsers, m \in 1..MaxLivestreams :
        /\ users = FixedUsers(n)
        /\ livestreams = LivestreamTable(Len(users), m)
        /\ reactions \in ReactionTables(m, { <<1>> }, 1)
        /\ livecomments \in { << >> } \cup
               { << [id |-> 1, livestream_id |-> l, tip |-> MaxTip] >> : l \in 1..m }
        /\ viewers \in RowTables(m)
        /\ reports \in RowTables(m)
    /\ req = [r \in {1} |-> Idle]
    /\ scores = [r \in {1} |-> EmptyMap]

SpecStats == InitStats /\ [][Next]_vars

\* One request at a time; the reactions carry every emoji name, and one more
\* reaction than MaxReactions so that a majority next to a minority occurs.
InitEmoji ==
    /\ users = FixedUsers(MaxUsers)
    /\ \E m \in 1..MaxLivestreams :
        /\ livestreams = LivestreamTable(Len(users), m)
        /\ reactions \in ReactionTables(m, Names, MaxReactions + 1)
    /\ livecomments = << >>
    /\ viewers = << >>
    /\ reports = << >>
    /\ req = [r \in {1} |-> Idle]
    /\ scores = [r \in {1} |-> EmptyMap]

SpecEmoji == InitEmoji /\ [][Next]_vars

\* Two requests at once: 0..MaxReactions reactions on livestream 1 and one
\* comment with a tip of 1 on the last livestream.
InitConc ==
    /\ users = FixedUsers(MaxUsers)
    /\ livestreams = LivestreamTable(Len(users), MaxLivestreams)
    /\ reactions \in ReactionTables(1, { <<1>> }, MaxReactions)
    /\ livecomments = << [id |-> 1, livestream_id |-> MaxLivestreams, tip |-> 1] >>
    /\ viewers = << >>
    /\ reports = << >>
    /\ req = [r \in {1, 2} |-> Idle]
    /\ scores = [r \in {1, 2} |-> EmptyMap]

SpecConc == InitConc /\ [][Next]_vars

\* The inputs of postReactionHandler: the livestream, the user of the session
\* (who may be gone from users), the body.
SessionUsers == 1..(MaxUsers + 1)
PostBodies == { JSONBody(<<1>>), NullBody, MalformedBody }

\* Reactions posted while livestream statistics are read or other reactions are
\* posted, two requests at once: 0..MaxReactions reactions stored on livestream 1,
\* no livecomments.
InitPost ==
    /\ users = FixedUsers(MaxUsers)
    /\ livestreams = LivestreamTable(Len(users), MaxLivestreams)
    /\ reactions \in ReactionTables(1, { <<1>> }, MaxReactions)
    /\ livecomments = << >>
    /\ viewers = << >>
    /\ reports = << >>
    /\ req = [r \in {1, 2} |-> Idle]
    /\ scores = [r \in {1, 2} |-> EmptyMap]

NextPost ==
    \/ \E r \in Slots, param \in LivestreamParams : LivestreamStatsStart(r, param)
    \/ \E r \in Slots : LivestreamStatsGetLivestream(r)
    \/ \E r \in Slots : LivestreamStatsSelectLivestreams(r)
    \/ \E r \in Slots : LivestreamStatsCountReactions(r)
    \/ \E r \in Slots : LivestreamStatsCountTips(r)
    \/ \E r \in Slots : LivestreamStatsCountViewers(r)
    \/ \E r \in Slots : LivestreamStatsMaxTip(r)
    \/ \E r \in Slots : LivestreamStatsCountReports(r)
    \/ \E r \in Slots : LivestreamStatsCommit(r)
    \/ \E r \in Slots, param \in LivestreamParams, userID \in SessionUsers, body \in PostBodies :
           PostReactionStart(r, param, userID, body)
    \/ \E r \in Slots : PostReactionInsert(r)
    \/ \E r \in Slots : PostReactionFillUser(r)
    \/ \E r \in Slots : PostReactionFillLivestream(r)
    \/ \E r \in Slots : PostReactionCommit(r)

SpecPost == InitPost /\ [][NextPost]_vars

\* A sequence of three operations, each begun when the one before has returned:
\* livestream statistics, a posted reaction, the same livestream statistics again.
\* The reactions stored, on any of the livestreams, are at most MaxReactions once
\* the posted one is among them.
InitSeq ==
    /\ users = FixedUsers(MaxUsers)
    /\ livestreams = LivestreamTable(Len(users), MaxLivestreams)
    /\ reactions \in ReactionTables(MaxLivestreams, { <<1>> }, MaxReactions - 1)
    /\ livecomments = << >>
    /\ viewers = << >>
    /\ reports = << >>
    /\ req = [r \in Slots |-> Idle]
    /\ scores = [r \in Slots |-> EmptyMap]

\* Request r is the next of the sequence.
Sequential(r) ==
    \A s \in DOMAIN req : (s < r => req[s].pc = "done") /\ (s > r => req[s].pc = "idle")

NextSeq ==
    \/ \E r \in {1, 3}, param \in LivestreamParams :
           /\ Sequential(r)
           /\ r = 3 => param = req[1].target
           /\ LivestreamStatsStart(r, param)
    \/ \E r \in Slots : LivestreamStatsGetLivestream(r)
    \/ \E r \in Slots : LivestreamStatsSelectLivestreams(r)
    \/ \E r \in Slots : LivestreamStatsCountReactions(r)
    \/ \E r \in Slots : LivestreamStatsCountTips(r)
    \/ \E r \in Slots : LivestreamStatsCountViewers(r)
    \/ \E r \in Slots : LivestreamStatsMaxTip(r)
    \/ \E r \in Slots : LivestreamStatsCountReports(r)
    \/ \E r \in Slots : LivestreamStatsCommit(r)
    \/ \E r \in {2}, param \in LivestreamParams, userID \in SessionUsers, body \in PostBodies :
           Sequential(r) /\ PostReactionStart(r, param, userID, body)
    \/ \E r \in Slots : PostReactionInsert(r)
    \/ \E r \in Slots : PostReactionFillUser(r)
    \/ \E r \in Slots : PostReactionFillLivestream(r)
    \/ \E r \in Slots : PostReactionCommit(r)

SpecSeq == InitSeq /\ [][NextSeq]_vars

\* ------------------------------------------------------------------ the facts, read off the tables
Done(r) == req[r].pc = "done"

\* The handler of r has built, sorted and scanned its ranking and not yet returned.
UserRanked(r) ==
    req[r].handler = "userStats"
        /\ req[r].pc \in {"countLivecomments", "countViewers", "favoriteEmoji"}
LivestreamRanked(r) ==
    req[r].handler = "livestreamStats"
        /\ req[r].pc \in {"countViewers", "maxTip", "countReports", "commit"}

\* The session was valid and no call of the request failed.
Served(r) == Done(r) /\ req[r].failed = "none" /\ req[r].status # "SessionError"

OwnedBy(lsID, userID) ==
    \E j \in DOMAIN livestreams :
        livestreams[j].id = lsID /\ livestreams[j].user_id = userID

LivestreamReactionFact(id) ==
    Cardinality({ i \in DOMAIN reactions : reactions[i].livestream_id = id })
LivestreamTipFact(id) ==
    SumSeq([i \in DOMAIN livecomments |->
               IF livecomments[i].livestream_id = id THEN livecomments[i].tip ELSE 0])
LivestreamScoreFact(id) == LivestreamReactionFact(id) + LivestreamTipFact(id)

UserReactionFact(userID) ==
    Cardinality({ i \in DOMAIN reactions : OwnedBy(reactions[i].livestream_id, userID) })
UserTipFact(userID) ==
    SumSeq([i \in DOMAIN livecomments |->
               IF OwnedBy(livecomments[i].livestream_id, userID)
               THEN livecomments[i].tip ELSE 0])
UserScoreFact(userID) == UserReactionFact(userID) + UserTipFact(userID)

UserExists(name) == \E i \in DOMAIN users : users[i].name = name
UserNamed(name) == CHOOSE i \in DOMAIN users : users[i].name = name
LivestreamExists(id) == \E j \in DOMAIN livestreams : livestreams[j].id = id

\* The rank a user / a livestream is due: one more than the number of entities
\* with a higher score, or the same score and a larger tie-break key.
UserRankFact(name) ==
    LET t == UserNamed(name)
    IN  1 + Cardinality({ j \in DOMAIN users :
              \/ UserScoreFact(users[j].id) > UserScoreFact(users[t].id)
              \/ /\ UserScoreFact(users[j].id) = UserScoreFact(users[t].id)
                 /\ StringLess(name, users[j].name) })
LivestreamRankFact(id) ==
    1 + Cardinality({ j \in DOMAIN livestreams :
            \/ LivestreamScoreFact(livestreams[j].id) > LivestreamScoreFact(id)
            \/ /\ LivestreamScoreFact(livestreams[j].id) = LivestreamScoreFact(id)
               /\ livestreams[j].id > id })

UserRankIn(r, i) == UserRankScan(req[r].ranking, users[i].name)
LivestreamRankIn(r, j) == LivestreamRankScan(req[r].ranking, livestreams[j].id)

\* ------------------------------------------------------------------ claims
\* C1: over all N targets of a population, the ranks that build-sort-backward-scan
\* computes are exactly 1..N: one rank per entity, none repeated, none skipped,
\* none above N; and the rank a request returns lies in 1..N.
RanksArePermutation ==
    \A r \in DOMAIN req :
        /\ UserRanked(r) =>
              LET rank == [i \in DOMAIN users |-> UserRankIn(r, i)]
              IN  /\ Range(rank) = 1..Len(users)
                  /\ \A i, j \in DOMAIN users : i # j => rank[i] # rank[j]
                  /\ req[r].rank \in 1..Len(users)
        /\ LivestreamRanked(r) =>
              LET rank == [j \in DOMAIN livestreams |-> LivestreamRankIn(r, j)]
              IN  /\ Range(rank) = 1..Len(livestreams)
                  /\ \A i, j \in DOMAIN livestreams : i # j => rank[i] # rank[j]
                  /\ req[r].rank \in 1..Len(livestreams)
        /\ Done(r) /\ req[r].status = "OK" /\ req[r].handler = "userStats" =>
              req[r].body.Rank \in 1..Len(users)
        /\ Done(r) /\ req[r].status = "OK" /\ req[r].handler = "livestreamStats" =>
              req[r].body.Rank \in 1..Len(livestreams)

\* A user request over a population of at least two, the target ranked last.
RanksArePermutationWitness ==
    \E r \in DOMAIN req :
        UserRanked(r) /\ Len(users) >= 2 /\ req[r].rank = Len(users)

\* C2: with score(A) > score(B), the rank computed for A is smaller than the
\* rank computed for B, among users and among livestreams.
HigherScoreBetterRank ==
    \A r \in DOMAIN req :
        /\ UserRanked(r) =>
              LET rank == [i \in DOMAIN users |-> UserRankIn(r, i)]
                  score == [i \in DOMAIN users |-> UserScoreFact(users[i].id)]
              IN  \A i, j \in DOMAIN users : score[i] > score[j] => rank[i] < rank[j]
        /\ LivestreamRanked(r) =>
              LET rank == [j \in DOMAIN livestreams |-> LivestreamRankIn(r, j)]
                  score == [j \in DOMAIN livestreams |-> LivestreamScoreFact(livestreams[j].id)]
              IN  \A i, j \in DOMAIN livestreams : score[i] > score[j] => rank[i] < rank[j]

\* The target has the larger name and the lower score, and is ranked behind.
HigherScoreBetterRankWitness ==
    \E r \in DOMAIN req :
        /\ UserRanked(r)
        /\ \E i \in DOMAIN users :
              /\ UserScoreFact(users[i].id) > UserScoreFact(req[r].user)
              /\ StringLess(users[i].name, req[r].target)
              /\ UserRankIn(r, i) < req[r].rank

\* C3: of two distinct entities with equal scores the one with the larger
\* tie-break key (user name, livestream id) gets the smaller rank, so the two
\* never share a rank.
TiesBrokenByLargerKey ==
    \A r \in DOMAIN req :
        /\ UserRanked(r) =>
              LET rank == [i \in DOMAIN users |-> UserRankIn(r, i)]
                  score == [i \in DOMAIN users |-> UserScoreFact(users[i].id)]
              IN  \A i, j \in DOMAIN users :
                      /\ i # j
                      /\ score[i] = score[j]
                      /\ StringLess(users[j].name, users[i].name)
                      => rank[i] < rank[j]
        /\ LivestreamRanked(r) =>
              LET rank == [j \in DOMAIN livestreams |-> LivestreamRankIn(r, j)]
                  score == [j \in DOMAIN livestreams |-> LivestreamScoreFact(livestreams[j].id)]
              IN  \A i, j \in DOMAIN livestreams :
                      /\ i # j
                      /\ score[i] = score[j]
                      /\ livestreams[j].id < livestreams[i].id
                      => rank[i] < rank[j]

\* Two users tie on a positive score; the target has the smaller name.
TiesBrokenByLargerKeyWitness ==
    \E r \in DOMAIN req :
        /\ UserRanked(r)
        /\ \E i \in DOMAIN users :
              /\ users[i].id # req[r].user
              /\ UserScoreFact(users[i].id) = UserScoreFact(req[r].user)
              /\ UserScoreFact(req[r].user) > 0
              /\ StringLess(req[r].target, users[i].name)
              /\ req[r].rank = UserRankIn(r, i) + 1

\* C4: after aggregation, in whatever order the rows of the two result sets came,
\* the score of every entity of the population, in the map and in its ranking
\* entry, is its reaction count plus its tip sum, an absent count or sum being 0.
ScoreIsCountPlusTips ==
    \A r \in DOMAIN req :
        /\ UserRanked(r) =>
              \A i \in DOMAIN users :
                  /\ MapGet(Score(r), users[i].id) = UserScoreFact(users[i].id)
                  /\ [Username |-> users[i].name, Score |-> UserScoreFact(users[i].id)]
                         \in Range(req[r].ranking)
        /\ LivestreamRanked(r) =>
              \A j \in DOMAIN livestreams :
                  /\ MapGet(Score(r), livestreams[j].id) = LivestreamScoreFact(livestreams[j].id)
                  /\ [LivestreamID |-> livestreams[j].id,
                      Score |-> LivestreamScoreFact(livestreams[j].id)]
                         \in Range(req[r].ranking)

\* One user has reactions and tips, another has neither.
ScoreIsCountPlusTipsWitness ==
    \E r \in DOMAIN req :
        /\ UserRanked(r)
        /\ \E i, j \in DOMAIN users :
              /\ UserReactionFact(users[i].id) > 0
              /\ UserTipFact(users[i].id) > 0
              /\ users[j].id \notin DOMAIN Score(r)
              /\ MapGet(Score(r), users[i].id) > UserTipFact(users[i].id)

\* No reaction, comment or viewer on any livestream of the user.
UserHasNoActivity(userID) ==
    /\ UserReactionFact(userID) = 0
    /\ \A i \in DOMAIN livecomments : ~OwnedBy(livecomments[i].livestream_id, userID)
    /\ \A i \in DOMAIN viewers : ~OwnedBy(viewers[i].livestream_id, userID)

\* No reaction, comment, viewer or report on the livestream.
LivestreamHasNoActivity(id) ==
    /\ LivestreamReactionFact(id) = 0
    /\ \A i \in DOMAIN livecomments : livecomments[i].livestream_id # id
    /\ \A i \in DOMAIN viewers : viewers[i].livestream_id # id
    /\ \A i \in DOMAIN reports : reports[i].livestream_id # id

\* C5: statistics of a user name or livestream id that is not in the population
\* end in an error without statistics (BadRequest when the lookup itself worked);
\* statistics of an existing entity without any activity succeed with every
\* metric 0, the favorite emoji empty, and the rank its zero score earns in 1..N.
NotFoundVersusZeroActivity ==
    \A r \in DOMAIN req :
        /\ Done(r) /\ req[r].handler = "userStats" /\ ~UserExists(req[r].target) =>
              /\ req[r].status # "OK"
              /\ req[r].body = NoBody
              /\ Served(r) => req[r].status = "BadRequest"
        /\ Done(r) /\ req[r].handler = "livestreamStats" /\ req[r].target.isInt
                   /\ ~LivestreamExists(req[r].target.val) =>
              /\ req[r].status # "OK"
              /\ req[r].body = NoBody
              /\ Served(r) => req[r].status = "BadRequest"
        /\ Served(r) /\ req[r].handler = "userStats" /\ UserExists(req[r].target)
                     /\ UserHasNoActivity(users[UserNamed(req[r].target)].id) =>
              /\ req[r].status = "OK"
              /\ req[r].body = [ kind |-> "UserStatistics",
                                 Rank |-> UserRankFact(req[r].target),
                                 ViewersCount |-> 0, TotalReactions |-> 0,
                                 TotalLivecomments |-> 0, TotalTip |-> 0,
                                 FavoriteEmoji |-> EmptyString ]
              /\ req[r].body.Rank \in 1..Len(users)
        /\ Served(r) /\ req[r].handler = "livestreamStats" /\ req[r].target.isInt
                     /\ LivestreamExists(req[r].target.val)
                     /\ LivestreamHasNoActivity(req[r].target.val) =>
              /\ req[r].status = "OK"
              /\ req[r].body = [ kind |-> "LivestreamStatistics",
                                 Rank |-> LivestreamRankFact(req[r].target.val),
                                 ViewersCount |-> 0, MaxTip |-> 0,
                                 TotalReactions |-> 0, TotalReports |-> 0 ]
              /\ req[r].body.Rank \in 1..Len(livestreams)

\* A user without activity is served, ranked behind a user who has some.
NotFoundVersusZeroActivityWitness ==
    \E r \in DOMAIN req :
        /\ Served(r) /\ req[r].handler = "userStats" /\ UserExists(req[r].target)
        /\ UserHasNoActivity(users[UserNamed(req[r].target)].id)
        /\ req[r].status = "OK" /\ req[r].body.Rank >= 2
        /\ viewers # << >> /\ reactions # << >>

StatsHandlers == {"userStats", "livestreamStats"}

\* C6: a statistics request answers with statistics only when it is over and none
\* of its calls failed; once a call has failed the request is over with an
\* internal error and no statistics.
NoPartialResult ==
    \A r \in DOMAIN req :
        req[r].handler \in StatsHandlers =>
            /\ req[r].body # NoBody =>
                  Done(r) /\ req[r].status = "OK" /\ req[r].failed = "none"
            /\ req[r].status = "OK" => req[r].body # NoBody
            /\ req[r].failed # "none" =>
                  Done(r) /\ req[r].status = "InternalServerError" /\ req[r].body = NoBody
            /\ ~Done(r) => req[r].status = "none"

\* A livestream-statistics request whose last query failed, after the rank and
\* the other metrics were there, has ended in an error.
NoPartialResultWitness ==
    \E r \in DOMAIN req :
        /\ req[r].handler = "livestreamStats" /\ Done(r)
        /\ req[r].failed = "countReports"
        /\ req[r].status = "InternalServerError"
        /\ LivestreamReactionFact(req[r].target.val) > 0

\* The reactions with emoji e on the livestreams of the user of that name.
EmojiCountFact(name, e) ==
    Cardinality({ i \in DOMAIN reactions :
        /\ reactions[i].emoji_name = e
        /\ \E k \in DOMAIN users :
              users[k].name = name /\ OwnedBy(reactions[i].livestream_id, users[k].id) })

\* C7: the favorite emoji of a user is an emoji name with the highest count among
\* the reactions on the user's livestreams, the lexicographically largest of those
\* that share the highest count; without any reaction it is the empty string and
\* the request succeeds all the same.
FavoriteEmojiIsMostFrequentLargest ==
    \A r \in DOMAIN req :
        /\ Done(r) /\ req[r].handler = "userStats" /\ req[r].status = "OK" =>
              LET name == req[r].target
                  fav == req[r].body.FavoriteEmoji
              IN  IF \A e \in Names : EmojiCountFact(name, e) = 0
                  THEN fav = EmptyString
                  ELSE /\ fav \in Names
                       /\ EmojiCountFact(name, fav) > 0
                       /\ \A e \in Names :
                             \/ EmojiCountFact(name, e) < EmojiCountFact(name, fav)
                             \/ /\ EmojiCountFact(name, e) = EmojiCountFact(name, fav)
                                /\ ~StringLess(fav, e)
        /\ Served(r) /\ req[r].handler = "userStats" /\ UserExists(req[r].target) =>
              req[r].status = "OK"

\* Two emoji names share the highest count and the larger one is reported.
FavoriteEmojiIsMostFrequentLargestWitness ==
    \E r \in DOMAIN req :
        /\ Done(r) /\ req[r].handler = "userStats" /\ req[r].status = "OK"
        /\ \E e \in Names :
              /\ e # req[r].body.FavoriteEmoji
              /\ EmojiCountFact(req[r].target, e) > 0
              /\ EmojiCountFact(req[r].target, e)
                     = EmojiCountFact(req[r].target, req[r].body.FavoriteEmoji)

\* C8: over fixed facts every statistics request, whatever requests run beside it
\* and however their steps interleave, returns the rank the facts determine; two
\* requests for the same target return the same rank.
ConcurrentRequestsAgree ==
    /\ \A r \in DOMAIN req :
          /\ Done(r) /\ req[r].status = "OK" /\ req[r].handler = "userStats" =>
                req[r].body.Rank = UserRankFact(req[r].target)
          /\ Done(r) /\ req[r].status = "OK" /\ req[r].handler = "livestreamStats" =>
                req[r].body.Rank = LivestreamRankFact(req[r].target.val)
    /\ \A r1, r2 \in DOMAIN req :
          /\ Done(r1) /\ Done(r2) /\ req[r1].status = "OK" /\ req[r2].status = "OK"
          /\ req[r1].handler \in StatsHandlers
          /\ req[r1].handler = req[r2].handler /\ req[r1].target = req[r2].target
          => req[r1].body.Rank = req[r2].body.Rank

\* Two requests for the same user have both been answered; reactions decide the rank.
ConcurrentRequestsAgreeWitness ==
    \E r1, r2 \in DOMAIN req :
        /\ r1 # r2
        /\ Done(r1) /\ Done(r2) /\ req[r1].status = "OK" /\ req[r2].status = "OK"
        /\ req[r1].handler = "userStats" /\ req[r2].handler = "userStats"
        /\ req[r1].target = req[r2].target
        /\ req[r1].body.Rank = 1
        /\ UserTipFact(users[UserNamed(req[r1].target)].id) = 0
        /\ UserReactionFact(users[UserNamed(req[r1].target)].id) > 0

\* C9: the ranking that is sorted and scanned has one entry per entity of the
\* population: as long as the population, no zero-valued entry, no entry twice.
RankingHasOneEntryPerEntity ==
    \A r \in DOMAIN req :
        /\ UserRanked(r) \/ LivestreamRanked(r) =>
              /\ Len(req[r].ranking) = Cardinality(req[r].population)
              /\ \A i, j \in DOMAIN req[r].ranking :
                    i # j => req[r].ranking[i] # req[r].ranking[j]
        /\ UserRanked(r) => ZeroUserRankingEntry \notin Range(req[r].ranking)
        /\ LivestreamRanked(r) => ZeroLivestreamRankingEntry \notin Range(req[r].ranking)

\* The stored reactions of a livestream.
StoredReactions(id) == { i \in DOMAIN reactions : reactions[i].livestream_id = id }

\* C10: getReactionsHandler, for a livestream with k stored reactions, returns
\* normally a list of k entries (min(k, limit) under a limit), one per stored
\* reaction, newest first.
GetReactionsReturnsStoredReactions ==
    \A r \in DOMAIN req :
        /\ Served(r) /\ req[r].handler = "getReactions" /\ req[r].target.isInt
        /\ req[r].limit.present => req[r].limit.isInt
        =>  LET k == Cardinality(StoredReactions(req[r].target.val))
                n == IF req[r].limit.present THEN Min(k, req[r].limit.val) ELSE k
            IN  /\ req[r].status = "OK"
                /\ req[r].body.kind = "Reactions"
                /\ Len(req[r].body.list) = n
                /\ \A i, j \in 1..n :
                      /\ i # j => req[r].body.list[i].ID # req[r].body.list[j].ID
                      /\ i < j => req[r].body.list[i].CreatedAt >= req[r].body.list[j].CreatedAt
                /\ \A i \in 1..n :
                      \E x \in StoredReactions(req[r].target.val) :
                          reactions[x].id = req[r].body.list[i].ID

\* Request r takes a step of postReactionHandler.
PostReactionStep(r) == req'[r] # req[r] /\ req'[r].handler = "postReaction"

\* Request r returns from postReactionHandler with 201 Created.
PostReactionSucceeds(r) ==
    PostReactionStep(r) /\ req'[r].pc = "done" /\ req'[r].status = "Created"

\* C11: postReactionHandler is atomic on the stored reactions. The step in which
\* a request returns success adds exactly one reaction, under a fresh id, for the
\* session user, the given livestream and the given emoji; every other step of a
\* request (the insert, the loading of the user and the livestream for the
\* response, a failed commit, any error return) leaves the stored reactions as
\* they were, and so does every step of every other handler.
PostReactionIsAtomic ==
    [][ /\ \A r \in DOMAIN req :
              PostReactionStep(r) =>
                  IF PostReactionSucceeds(r)
                  THEN \E row \in Range(reactions') :
                          /\ reactions' = Append(reactions, row)
                          /\ row.id \notin { x.id : x \in Range(reactions) }
                          /\ row.user_id = req[r].user
                          /\ row.livestream_id = req[r].target.val
                          /\ row.emoji_name = req[r].emojiName
                          /\ req'[r].body.ID = row.id
                  ELSE reactions' = reactions
        /\ reactions' # reactions => \E r \in DOMAIN req : PostReactionSucceeds(r) ]_vars

\* One request has stored its reaction; another, for a livestream that is not
\* there, has inserted, failed to load the livestream and returned an error.
PostReactionIsAtomicWitness ==
    \E r1, r2 \in DOMAIN req :
        /\ req[r1].handler = "postReaction" /\ Done(r1) /\ req[r1].status = "Created"
        /\ req[r2].handler = "postReaction" /\ Done(r2)
        /\ req[r2].failed = "fillLivestream" /\ req[r2].status = "InternalServerError"
        /\ ~LivestreamExists(req[r2].target.val)
        /\ \E i \in DOMAIN reactions : reactions[i].id = req[r1].body.ID

\* Requests a and b, for the statistics of the same livestream, were both
\* answered, a before and b after the one reaction stored between them: nothing
\* was stored while either ran, and one reaction more is stored for b than for a.
OneReactionBetween(a, b) ==
    /\ req[a].handler = "livestreamStats" /\ Done(a) /\ req[a].status = "OK"
    /\ req[b].handler = "livestreamStats" /\ Done(b) /\ req[b].status = "OK"
    /\ req[a].target = req[b].target
    /\ req[a].firstSeen = req[a].lastSeen
    /\ req[b].firstSeen = req[b].lastSeen
    /\ req[b].firstSeen = req[a].lastSeen + 1

\* The livestream of the reaction stored between a and b (reactions are stored
\* in the order they are committed).
ReactedBetween(a, b) == reactions[req[b].firstSeen].livestream_id

====
